---- MODULE Spec2Model ----
(***************************************************************************)
(* PixelTracker (src/tracker_app.py): a Flask application with three       *)
(* handlers over one append-only text file.                                *)
(*                                                                         *)
(*   track_pixel  GET /pixel/<tracking_id>.png   appends one entry         *)
(*   view_stats   GET /stats                     reads and summarises      *)
(*   home         GET /                          fixed payload             *)
(*                                                                         *)
(* Text is modelled as sequences of one-character strings, so that the     *)
(* f-string that writes an entry and the readlines/strip/split that parse  *)
(* it back are two different computations.                                 *)
(***************************************************************************)
EXTENDS Integers, Sequences, FiniteSets, TLC

VARIABLES
    fexists,    \* whether LOG_FILE exists
    content,    \* the characters of LOG_FILE (<<>> while it does not exist)
    clock,      \* the local clock read by datetime.now()
    resp,       \* the response to the last request answered
    page,       \* the locals of view_stats at the end of the last /stats request
    req,        \* the last pixel request answered: its inputs and its outcome
    hist,       \* every pixel request answered: its tracking id, whether it wrote
    wpc,        \* per concurrent pixel request: "idle", "built", "open", "done"
    wentry,     \* per concurrent pixel request: the log_entry it built
    wsent,      \* per concurrent pixel request: characters of it in the file
    wreq,       \* per concurrent pixel request: its inputs
    rpc,        \* the concurrent /stats request: "idle", "open", "reading", "done"
    rbuf,       \* the text the concurrent /stats request has read so far
    doneAtRead, \* appends complete when the concurrent /stats began to read
    begunAtEof  \* appends begun when the concurrent /stats reached end of file

conc == <<wpc, wentry, wsent, wreq, rpc, rbuf, doneAtRead, begunAtEof>>
vars == <<fexists, content, clock, resp, page, req, hist, conc>>

----------------------------------------------------------------------------
(* Bounds of the model *)

\* pixel requests explored from an absent log file
MaxReq == 2

\* pieces a pre-existing log file is put together from
MaxPieces == 4

\* how far around RecentRows the number of entries of a long log ranges
TableSlack == 2

\* concurrent pixel requests
NWriters == 2

----------------------------------------------------------------------------
(* Characters and text *)

BAR == "|"
NL == "\n"
CR == "\r"
SP == " "

\* the characters str.strip() removes, among those the model uses
Whitespace == {SP, NL, CR}

Min(a, b) == IF a <= b THEN a ELSE b
Max(a, b) == IF a >= b THEN a ELSE b

\* s[:n]
Take(s, n) == SubSeq(s, 1, Min(n, Len(s)))

\* s[-n:]
LastN(s, n) == SubSeq(s, Max(1, Len(s) - n + 1), Len(s))

\* reversed(s)
Reversed(s) == [i \in 1..Len(s) |-> s[Len(s) + 1 - i]]

----------------------------------------------------------------------------
(* Program constants *)

\* the decoded 1x1 transparent PNG
PIXEL_DATA ==
    <<137, 80, 78, 71, 13, 10, 26, 10, 0, 0, 0, 13, 73, 72, 68, 82,
      0, 0, 0, 1, 0, 0, 0, 1, 8, 4, 0, 0, 0, 181, 28, 12,
      2, 0, 0, 0, 11, 73, 68, 65, 84, 120, 218, 99, 100, 248, 15, 0,
      1, 5, 1, 1, 39, 24, 227, 102, 0, 0, 0, 0, 73, 69, 78, 68,
      174, 66, 96, 130>>

\* request.headers.get('User-Agent', 'Unknown')
UnknownAgent == <<"U", "n", "k", "n", "o", "w", "n">>

\* if len(parts) >= 4
MinParts == 4

\* opens[-50:]
RecentRows == 50

\* open_event['timestamp'][:19]
TimestampShown == 19

\* open_event['user_agent'][:80]
AgentShown == 80

----------------------------------------------------------------------------
(* Request metadata *)

NoHeader == [present |-> FALSE, value |-> <<>>]
Header(v) == [present |-> TRUE, value |-> v]

\* request.headers.get(name, default)
HeadersGet(h, default) == IF h.present THEN h.value ELSE default

DigitChar == <<"0", "1", "2", "3", "4", "5", "6", "7", "8", "9">>

\* datetime.now().isoformat(): text made of digits and separators, never
\* '|', whitespace or a line break; here 'T' and the clock in three digits
IsoFormat(t) ==
    <<"T", DigitChar[((t \div 100) % 10) + 1],
           DigitChar[((t \div 10) % 10) + 1],
           DigitChar[(t % 10) + 1]>>

\* a variant of LogEntry for which the entry lacks its line end
LogEntry_NoLineEnd(timestamp, tracking_id, ip, user_agent) ==
    timestamp \o <<BAR>> \o tracking_id \o <<BAR>> \o ip \o <<BAR>>
        \o user_agent

\* f"{timestamp}|{tracking_id}|{ip}|{user_agent}\n"
LogEntry(timestamp, tracking_id, ip, user_agent) ==
    timestamp \o <<BAR>> \o tracking_id \o <<BAR>> \o ip \o <<BAR>>
        \o user_agent \o <<NL>>

\* the entry track_pixel builds from a request
EntryOf(t, tracking_id, xff, remote_addr, agent) ==
    LogEntry(IsoFormat(t), tracking_id,
             HeadersGet(xff, remote_addr),
             HeadersGet(agent, UnknownAgent))

----------------------------------------------------------------------------
(* Reading the log back *)

\* universal newlines: a line ends at '\n', at '\r\n' or at a lone '\r'
IsLineEnd(s, i) ==
    \/ s[i] = NL
    \/ s[i] = CR /\ (i = Len(s) \/ s[i + 1] # NL)

RECURSIVE NextLineEnd(_, _)
NextLineEnd(s, i) ==
    IF i > Len(s) THEN 0
    ELSE IF IsLineEnd(s, i) THEN i
    ELSE NextLineEnd(s, i + 1)

\* f.readlines() from position start: each line keeps its end, translated to
\* '\n'; a last line without an end is returned as it is
RECURSIVE LinesFrom(_, _)
LinesFrom(s, start) ==
    IF start > Len(s) THEN <<>>
    ELSE LET p == NextLineEnd(s, start) IN
         IF p = 0 THEN <<SubSeq(s, start, Len(s))>>
         ELSE LET last == IF s[p] = NL /\ p > start /\ s[p - 1] = CR
                          THEN p - 2 ELSE p - 1
              IN  <<SubSeq(s, start, last) \o <<NL>>>> \o LinesFrom(s, p + 1)

ReadLines(s) == LinesFrom(s, 1)

RECURSIVE FirstInk(_, _)
FirstInk(s, i) ==
    IF i > Len(s) THEN i
    ELSE IF s[i] \in Whitespace THEN FirstInk(s, i + 1) ELSE i

RECURSIVE LastInk(_, _)
LastInk(s, i) ==
    IF i < 1 THEN i
    ELSE IF s[i] \in Whitespace THEN LastInk(s, i - 1) ELSE i

\* line.strip()
Strip(s) == SubSeq(s, FirstInk(s, 1), LastInk(s, Len(s)))

RECURSIVE NextBar(_, _)
NextBar(s, i) ==
    IF i > Len(s) THEN 0
    ELSE IF s[i] = BAR THEN i
    ELSE NextBar(s, i + 1)

\* s.split('|') from position start
RECURSIVE SplitFrom(_, _)
SplitFrom(s, start) ==
    LET p == NextBar(s, start) IN
    IF p = 0 THEN <<SubSeq(s, start, Len(s))>>
    ELSE <<SubSeq(s, start, p - 1)>> \o SplitFrom(s, p + 1)

\* s.split('|', n) from position start
RECURSIVE SplitAtMost(_, _, _)
SplitAtMost(s, start, n) ==
    LET p == NextBar(s, start) IN
    IF p = 0 \/ n = 0 THEN <<SubSeq(s, start, Len(s))>>
    ELSE <<SubSeq(s, start, p - 1)>> \o SplitAtMost(s, p + 1, n - 1)

\* a variant of Split that stops after three '|': s.split('|', 3)
Split_MaxSplit(s) == SplitAtMost(s, 1, 3)

Split(s) == SplitFrom(s, 1)

\* parts = line.strip().split('|')
Parts(line) == Split(Strip(line))

\* a variant of Keeps with the comparison off by one: len(parts) > 4
Keeps_MoreThanFour(parts) == Len(parts) > MinParts

\* if len(parts) >= 4
Keeps(parts) == Len(parts) >= MinParts

\* the dict appended to opens
OpenEvent(parts) ==
    [timestamp |-> parts[1], tracking_id |-> parts[2],
     ip |-> parts[3], user_agent |-> parts[4]]

\* the parse loop of view_stats
ParseLog(lines) ==
    LET kept == SelectSeq([i \in 1..Len(lines) |-> Parts(lines[i])], Keeps)
    IN  [i \in 1..Len(kept) |-> OpenEvent(kept[i])]

\* len(set(o['tracking_id'] for o in opens))
UniqueEmails(opens) ==
    Cardinality({opens[i].tracking_id : i \in 1..Len(opens)})

\* f"{(total_opens/unique_emails*100):.1f}", in tenths of a percent: the
\* quotient rounded to one decimal place, a tie going to the even digit
OpenRate(total_opens, unique_emails) ==
    LET num == total_opens * 1000
        q == num \div unique_emails
        r == num % unique_emails
    IN  IF 2 * r > unique_emails THEN q + 1
        ELSE IF 2 * r < unique_emails THEN q
        ELSE IF q % 2 = 0 THEN q ELSE q + 1

\* one <tr> of the table
Row(open_event) ==
    [timestamp |-> Take(open_event.timestamp, TimestampShown),
     tracking_id |-> open_event.tracking_id,
     ip |-> open_event.ip,
     user_agent |-> Take(open_event.user_agent, AgentShown)]

\* a variant of TableRows that slices from the wrong end: reversed(opens[:50])
TableRows_FirstFifty(opens) ==
    LET shown == Reversed(Take(opens, RecentRows))
    IN  [i \in 1..Len(shown) |-> Row(shown[i])]

\* for open_event in reversed(opens[-50:])
TableRows(opens) ==
    LET shown == Reversed(LastN(opens, RecentRows))
    IN  [i \in 1..Len(shown) |-> Row(shown[i])]

----------------------------------------------------------------------------
(* Responses *)

NoPage == [opens |-> <<>>, total_opens |-> -1, unique_emails |-> -1,
           open_rate |-> -1, rows |-> <<>>]

\* a variant of PixelResponse for a handler that lets the write error through
PixelResponse_Uncaught(outcome) ==
    IF outcome = "ok"
    THEN [op |-> "pixel", status |-> 200, mimetype |-> "image/png",
          body |-> PIXEL_DATA, printed |-> FALSE]
    ELSE [op |-> "pixel", status |-> 500, mimetype |-> "text/html",
          body |-> <<>>, printed |-> FALSE]

\* send_file(io.BytesIO(PIXEL_DATA), mimetype='image/png'); printed tells
\* whether "Error logging" went to standard output
PixelResponse(outcome) ==
    [op |-> "pixel", status |-> 200, mimetype |-> "image/png",
     body |-> PIXEL_DATA, printed |-> outcome # "ok"]

\* a variant of NotFoundResponse for a handler whose generic except clause
\* comes first
NotFoundResponse_AsError ==
    [op |-> "stats", status |-> 500, mimetype |-> "text/html",
     body |-> "No such file or directory", printed |-> FALSE]

\* except FileNotFoundError
NotFoundResponse ==
    [op |-> "stats", status |-> 404, mimetype |-> "text/html",
     body |-> "<h1>No tracking data yet</h1>", printed |-> FALSE]

\* a variant of ErrorResponse that returns the body without the status
ErrorResponse_DefaultStatus(e) ==
    [op |-> "stats", status |-> 200, mimetype |-> "text/html",
     body |-> e, printed |-> FALSE]

\* except Exception as e
ErrorResponse(e) ==
    [op |-> "stats", status |-> 500, mimetype |-> "text/html",
     body |-> e, printed |-> FALSE]

\* return html
HtmlResponse ==
    [op |-> "stats", status |-> 200, mimetype |-> "text/html",
     body |-> "html", printed |-> FALSE]

\* the dict home returns
HomeResponse ==
    [op |-> "home", status |-> 200, mimetype |-> "application/json",
     body |-> "running", printed |-> FALSE]

NoResponse ==
    [op |-> "none", status |-> 0, mimetype |-> "", body |-> "",
     printed |-> FALSE]

NoRequest ==
    [tracking_id |-> <<>>, xff |-> NoHeader, remote_addr |-> <<>>,
     agent |-> NoHeader, outcome |-> "none", at |-> 0]

Request(tracking_id, xff, remote_addr, agent, outcome, at) ==
    [tracking_id |-> tracking_id, xff |-> xff, remote_addr |-> remote_addr,
     agent |-> agent, outcome |-> outcome, at |-> at]

\* what view_stats computes from the text it read: its response and its
\* locals; total_opens/unique_emails raises ZeroDivisionError before any row
\* is rendered
StatsOf(text) ==
    LET opens == ParseLog(ReadLines(text))
        total_opens == Len(opens)
        unique_emails == UniqueEmails(opens)
    IN  IF unique_emails = 0
        THEN [resp |-> ErrorResponse("division by zero"),
              page |-> [opens |-> opens,
                        total_opens |-> total_opens,
                        unique_emails |-> unique_emails,
                        open_rate |-> -1, rows |-> <<>>]]
        ELSE [resp |-> HtmlResponse,
              page |-> [opens |-> opens,
                        total_opens |-> total_opens,
                        unique_emails |-> unique_emails,
                        open_rate |-> OpenRate(total_opens, unique_emails),
                        rows |-> TableRows(opens)]]

----------------------------------------------------------------------------
(* Inputs *)

\* tracking ids: any non-empty text without '/'; '|' and line breaks arrive
\* percent-encoded in the path
TrackingIds ==
    {<<"a">>, <<"b">>, <<"a", BAR, "b">>, <<"a", NL, "b">>}

\* X-Forwarded-For: absent or present
Forwarded == {NoHeader, Header(<<"x">>)}

\* request.remote_addr
RemoteAddrs == {<<"r">>}

\* User-Agent: absent or present
Agents == {NoHeader, Header(<<"u">>)}

\* what the append does: it succeeds, open() raises, or write() raises after
\* open() has created the file
Outcomes == {"ok", "open_failed", "write_failed"}

----------------------------------------------------------------------------
(* Handlers, one request at a time *)

\* a variant of Appended for a file opened with 'w'
Appended_Truncating(old, text) == text

\* what open(LOG_FILE, 'a') and f.write(text) leave in a file that held old
Appended(old, text) == old \o text

track_pixel(tracking_id, xff, remote_addr, agent, outcome) ==
    LET log_entry == EntryOf(clock, tracking_id, xff, remote_addr, agent) IN
    /\ fexists' = IF outcome = "open_failed" THEN fexists ELSE TRUE
    /\ content' = IF outcome = "ok" THEN Appended(content, log_entry)
                  ELSE content
    /\ clock' = clock + 1
    /\ req' = Request(tracking_id, xff, remote_addr, agent, outcome, clock)
    /\ hist' = Append(hist, [tracking_id |-> tracking_id,
                             ok |-> outcome = "ok"])
    /\ resp' = PixelResponse(outcome)
    /\ UNCHANGED <<page, conc>>

view_stats ==
    /\ IF ~fexists
       THEN /\ resp' = NotFoundResponse
            /\ page' = NoPage
       ELSE LET computed == StatsOf(content) IN
            /\ resp' = computed.resp
            /\ page' = computed.page
    /\ UNCHANGED <<fexists, content, clock, req, hist, conc>>

home ==
    /\ resp' = HomeResponse
    /\ UNCHANGED <<fexists, content, clock, page, req, hist, conc>>

----------------------------------------------------------------------------
(* The service started with no log file, serving one request at a time *)

Writers == 1..NWriters

ConcIdle ==
    /\ wpc = [w \in Writers |-> "idle"]
    /\ wentry = [w \in Writers |-> <<>>]
    /\ wsent = [w \in Writers |-> 0]
    /\ wreq = [w \in Writers |-> NoRequest]
    /\ rpc = "idle"
    /\ rbuf = <<>>
    /\ doneAtRead = 0
    /\ begunAtEof = 0

Init ==
    /\ fexists = FALSE
    /\ content = <<>>
    /\ clock = 1
    /\ resp = NoResponse
    /\ page = NoPage
    /\ req = NoRequest
    /\ hist = <<>>
    /\ ConcIdle

PixelRequest ==
    /\ Len(hist) < MaxReq
    /\ \E tracking_id \in TrackingIds, xff \in Forwarded,
          remote_addr \in RemoteAddrs, agent \in Agents, outcome \in Outcomes :
          track_pixel(tracking_id, xff, remote_addr, agent, outcome)

StatsRequest == view_stats

HomeRequest == home

Next == PixelRequest \/ StatsRequest \/ HomeRequest

Spec == Init /\ [][Next]_vars

----------------------------------------------------------------------------
(* Properties of the service started with no log file *)

IsPrefix(s, t) == Len(s) <= Len(t) /\ SubSeq(t, 1, Len(s)) = s

\* the pixel requests whose write succeeded, in order
Successes == SelectSeq(hist, LAMBDA h : h.ok)

\* the text a request is expected to leave in the log
ExpectedText(r) ==
    IsoFormat(r.at) \o <<"|">> \o r.tracking_id \o <<"|">>
        \o (IF r.xff.present THEN r.xff.value ELSE r.remote_addr) \o <<"|">>
        \o (IF r.agent.present THEN r.agent.value
            ELSE <<"U", "n", "k", "n", "o", "w", "n">>)
        \o <<"\n">>

\* C1: whatever the tracking id and the headers, and whether or not the
\* append succeeded, the pixel handler answers 200 with the fixed PNG bytes
\* and content-type image/png.
C1_PixelAlwaysServed ==
    resp.op = "pixel" =>
        /\ resp.status = 200
        /\ resp.mimetype = "image/png"
        /\ resp.body = PIXEL_DATA
        /\ SubSeq(resp.body, 1, 8) = <<137, 80, 78, 71, 13, 10, 26, 10>>

\* a pixel request without either header whose write raised
C1_Witness ==
    /\ resp.op = "pixel"
    /\ req.outcome = "write_failed"
    /\ ~req.xff.present
    /\ ~req.agent.present

\* C2, as claimed: after N >= 1 successful pixel requests with pairwise
\* distinct tracking ids, /stats reports total_opens = N and unique_emails = N.
C2_AsClaimed ==
    LET N == Len(Successes) IN
    (/\ resp.op = "stats"
     /\ N >= 1
     /\ \A i, j \in 1..N :
            i # j => Successes[i].tracking_id # Successes[j].tracking_id)
    => (/\ resp.status = 200
        /\ page.total_opens = N
        /\ page.unique_emails = N)

\* C3, as claimed: after N >= 1 pixel requests that all carry the same
\* tracking id (here with every write succeeding), /stats reports
\* unique_emails = 1 and open_rate = N * 100.0.
C3_AsClaimed ==
    LET N == Len(hist) IN
    (/\ resp.op = "stats"
     /\ N >= 1
     /\ \A i \in 1..N :
            hist[i].ok /\ hist[i].tracking_id = hist[1].tracking_id)
    => (/\ resp.status = 200
        /\ page.unique_emails = 1
        /\ page.open_rate = N * 1000)

\* C4, as claimed: every pixel call, whether or not its write succeeds,
\* appends <iso-timestamp>|T|<ip>|<user-agent> and a newline to the log.
C4_AsClaimed ==
    [][hist' # hist => content' = content \o ExpectedText(req')]_vars

\* C4, amended: a pixel call whose write succeeds appends exactly the text
\* <iso-timestamp>|T|<ip>|<user-agent> and a newline to the end of the log,
\* with ip the X-Forwarded-For header if present else the connection address
\* and user-agent 'Unknown' if absent; a call whose write fails appends nothing.
C4_SuccessfulCallAppendsEntry ==
    [][hist' # hist =>
          IF req'.outcome = "ok"
          THEN content' = content \o ExpectedText(req')
          ELSE content' = content]_vars

\* a successful append to a log that already has content, the ip taken from
\* X-Forwarded-For and the user agent defaulted
C4_Witness ==
    /\ resp.op = "pixel"
    /\ req.outcome = "ok"
    /\ req.xff.present
    /\ ~req.agent.present
    /\ Len(content) > Len(ExpectedText(req))

\* C5: /stats answers 404 exactly when the log file does not exist; once a
\* pixel write has succeeded it never answers 404.
C5_NotFoundIffNoFile ==
    resp.op = "stats" =>
        /\ (resp.status = 404) <=> ~fexists
        /\ Len(Successes) >= 1 => resp.status # 404

\* /stats answered 404 after a pixel request that could not open the log
C5_Witness ==
    /\ resp.op = "stats"
    /\ resp.status = 404
    /\ Len(hist) >= 1

\* C9: in every step the old log is a prefix of the new one and the file
\* does not cease to exist; /stats and / leave the log as it is, and so does
\* a pixel request whose write fails.
C9_AppendOnly ==
    [][/\ IsPrefix(content, content')
       /\ fexists => fexists'
       /\ resp'.op \in {"stats", "home"} =>
              content' = content /\ fexists' = fexists
       /\ (resp'.op = "pixel" /\ req'.outcome # "ok") =>
              content' = content]_vars

\* a pixel request whose write failed on a log that already has entries
C9_Witness ==
    /\ resp.op = "pixel"
    /\ req.outcome # "ok"
    /\ Len(Successes) >= 1
    /\ content # <<>>

----------------------------------------------------------------------------
(* /stats over a log file with any content.  LOG_FILE names a file that may *)
(* exist before the service starts, and tracking ids carry '|' and line    *)
(* breaks into it, so view_stats has to cope with arbitrary text.          *)

\* every single character of the model, and three longer fragments: a record
\* of four fields, a line of two fields, a record with a fifth part
Pieces ==
    {<<"a">>, <<"b">>, <<BAR>>, <<NL>>, <<CR>>, <<SP>>,
     <<"t", BAR, "a", BAR, "r", BAR, "u">>,
     <<"t", BAR, "a">>,
     <<"t", BAR, "b", BAR, "r", BAR, "u", BAR, "v">>}

RECURSIVE Concat(_)
Concat(ps) == IF ps = <<>> THEN <<>> ELSE Head(ps) \o Concat(Tail(ps))

Texts == {Concat(ps) : ps \in UNION {[1..n -> Pieces] : n \in 0..MaxPieces}}

InitParse ==
    /\ fexists \in BOOLEAN
    /\ content \in (IF fexists THEN Texts ELSE {<<>>})
    /\ clock = 1
    /\ resp = NoResponse
    /\ page = NoPage
    /\ req = NoRequest
    /\ hist = <<>>
    /\ ConcIdle

NextParse == StatsRequest \/ HomeRequest

SpecParse == InitParse /\ [][NextParse]_vars

\* the number of '|' in a text
BarCount(s) == Cardinality({i \in 1..Len(s) : s[i] = "|"})

\* the lines that split on '|' into at least four parts: those with at
\* least three '|'
FourPartLines(text) ==
    SelectSeq(ReadLines(text), LAMBDA l : BarCount(l) >= 3)

\* f1..f4 are the first four parts of line: none holds a '|', and joined by
\* '|' they open the stripped line, which ends there or goes on with a '|'
FirstFourParts(o, line) ==
    LET joined == o.timestamp \o <<"|">> \o o.tracking_id \o <<"|">>
                      \o o.ip \o <<"|">> \o o.user_agent
        stripped == Strip(line)
    IN  /\ BarCount(joined) = 3
        /\ IsPrefix(joined, stripped)
        /\ Len(stripped) > Len(joined) => stripped[Len(joined) + 1] = "|"

\* C6: a line with fewer than four '|'-separated parts is left out of the
\* records and of both counts; every line with at least four parts gives
\* exactly one record, made of its first four parts, in file order;
\* total_opens is the number of such lines.
C6_MalformedLinesDropped ==
    (resp.op = "stats" /\ fexists) =>
        LET good == FourPartLines(content) IN
        /\ page.total_opens = Len(good)
        /\ Len(page.opens) = Len(good)
        /\ \A i \in 1..Len(good) : FirstFourParts(page.opens[i], good[i])
        /\ page.unique_emails =
               Cardinality({page.opens[i].tracking_id : i \in 1..Len(good)})

\* a log with a line of two fields, which is dropped, and a line of five
\* parts, which gives the one record
C6_Witness ==
    LET lines == ReadLines(content) IN
    /\ resp.op = "stats"
    /\ page.total_opens = 1
    /\ \E i \in 1..Len(lines) : BarCount(lines[i]) = 1
    /\ \E i \in 1..Len(lines) : BarCount(lines[i]) = 4

\* C8: for an existing log file, unique_emails is 0 exactly when total_opens
\* is 0; /stats answers 500 exactly when no line gives a record; with at
\* least one record 1 <= unique_emails <= total_opens and the answer is 200.
C8_ServerErrorIffNoRecords ==
    (resp.op = "stats" /\ fexists) =>
        LET records == Len(FourPartLines(content)) IN
        /\ (page.unique_emails = 0) <=> (page.total_opens = 0)
        /\ (resp.status = 500) <=> (records = 0)
        /\ records >= 1 =>
               /\ 1 <= page.unique_emails
               /\ page.unique_emails <= page.total_opens
               /\ resp.status = 200

\* /stats answered 500 for a file that exists and has lines, none a record
C8_Witness ==
    /\ resp.op = "stats"
    /\ fexists
    /\ resp.status = 500
    /\ Len(ReadLines(content)) >= 2

----------------------------------------------------------------------------
(* /stats over a long log: the service after about RecentRows pixel requests *)

\* the tracking id, X-Forwarded-For and User-Agent of the i-th earlier request
PreId(i) ==
    IF i % 25 = 0 THEN <<"a", NL, "b">>
    ELSE IF i % 3 = 0 THEN <<"a", BAR, "b">>
    ELSE IF i % 2 = 0 THEN <<"b">>
    ELSE <<"a">>

PreForwarded(i) == IF i % 2 = 0 THEN NoHeader ELSE Header(<<"x">>)

PreAgent(i) == IF i % 5 = 0 THEN NoHeader ELSE Header(<<"u">>)

\* the log after n successful pixel requests at clock values 1..n
RECURSIVE LogAfter(_)
LogAfter(n) ==
    IF n = 0 THEN <<>>
    ELSE Appended(LogAfter(n - 1),
                  EntryOf(n, PreId(n), PreForwarded(n), <<"r">>, PreAgent(n)))

InitTable ==
    \E n \in (RecentRows - TableSlack)..(RecentRows + TableSlack) :
        /\ fexists = TRUE
        /\ content = LogAfter(n)
        /\ clock = n + 1
        /\ resp = PixelResponse("ok")
        /\ page = NoPage
        /\ req = Request(PreId(n), PreForwarded(n), <<"r">>, PreAgent(n),
                         "ok", n)
        /\ hist = [i \in 1..n |-> [tracking_id |-> PreId(i), ok |-> TRUE]]
        /\ ConcIdle

TablePixelRequest ==
    /\ Len(hist) < RecentRows + TableSlack + 1
    /\ \E tracking_id \in {<<"b">>, <<"a", NL, "b">>} :
          track_pixel(tracking_id, NoHeader, <<"r">>, Header(<<"u">>), "ok")

NextTable == TablePixelRequest \/ StatsRequest

SpecTable == InitTable /\ [][NextTable]_vars

\* C7: with R parsed records the table has min(R, 50) rows, never more than
\* 50: row i shows record R + 1 - i, so the rows are the last min(R, 50)
\* records, the most recently appended first.
C7_TableLastFiftyReversed ==
    (resp.op = "stats" /\ resp.status = 200) =>
        LET R == Len(page.opens)
            shown == IF R <= 50 THEN R ELSE 50
        IN  /\ Len(page.rows) = shown
            /\ Len(page.rows) <= 50
            /\ \A i \in 1..shown :
                   LET o == page.opens[R + 1 - i]
                       row == page.rows[i]
                   IN  /\ row.tracking_id = o.tracking_id
                       /\ row.ip = o.ip
                       /\ IsPrefix(row.timestamp, o.timestamp)
                       /\ Len(row.timestamp) = Min(19, Len(o.timestamp))
                       /\ IsPrefix(row.user_agent, o.user_agent)
                       /\ Len(row.user_agent) = Min(80, Len(o.user_agent))

\* /stats over a log of more than 50 records
C7_Witness ==
    /\ resp.op = "stats"
    /\ resp.status = 200
    /\ Len(page.opens) > 50
    /\ Len(page.rows) = 50

----------------------------------------------------------------------------
(* Concurrent requests.  The handlers take no lock: each pixel request     *)
(* opens, appends and closes the file, and /stats reads it to the end      *)
(* meanwhile.  The operating system appends one writer's text at a time;   *)
(* the text may reach the file in pieces, and a reader sees what has       *)
(* reached it.                                                             *)

\* no other request is part-way through its write
NoWriteInProgress(w) ==
    \A v \in Writers \ {w} : wsent[v] = 0 \/ wsent[v] = Len(wentry[v])

\* the requests whose whole entry is in the file, and those with a part in it
CompletedAppends == {w \in Writers : wsent[w] > 0 /\ wsent[w] = Len(wentry[w])}
BegunAppends == {w \in Writers : wsent[w] > 0}

\* the request is answered
PixelReturn(w, r) ==
    /\ resp' = PixelResponse(r.outcome)
    /\ req' = r
    /\ hist' = Append(hist, [tracking_id |-> r.tracking_id,
                             ok |-> r.outcome = "ok"])

\* track_pixel up to open(LOG_FILE, 'a'); when open() raises, the handler
\* prints and answers
PixelBegin(w, tracking_id, xff, remote_addr, agent, opened) ==
    /\ wpc[w] = "idle"
    /\ clock' = clock + 1
    /\ wentry' = [wentry EXCEPT
                     ![w] = EntryOf(clock, tracking_id, xff, remote_addr, agent)]
    /\ wreq' = [wreq EXCEPT
                   ![w] = Request(tracking_id, xff, remote_addr, agent,
                                  "ok", clock)]
    /\ IF opened
       THEN /\ wpc' = [wpc EXCEPT ![w] = "open"]
            /\ fexists' = TRUE
            /\ UNCHANGED <<resp, req, hist>>
       ELSE /\ wpc' = [wpc EXCEPT ![w] = "done"]
            /\ fexists' = fexists
            /\ PixelReturn(w, Request(tracking_id, xff, remote_addr, agent,
                                      "open_failed", clock))
    /\ UNCHANGED <<content, page, wsent, rpc, rbuf, doneAtRead, begunAtEof>>

\* f.write(log_entry) and the close: the next k characters reach the file;
\* with the last of them the handler answers
PixelWrite(w, k) ==
    /\ wpc[w] = "open"
    /\ NoWriteInProgress(w)
    /\ wsent[w] + k <= Len(wentry[w])
    /\ content' = Appended(content,
                           SubSeq(wentry[w], wsent[w] + 1, wsent[w] + k))
    /\ wsent' = [wsent EXCEPT ![w] = wsent[w] + k]
    /\ IF wsent[w] + k = Len(wentry[w])
       THEN /\ wpc' = [wpc EXCEPT ![w] = "done"]
            /\ PixelReturn(w, wreq[w])
       ELSE UNCHANGED <<wpc, resp, req, hist>>
    /\ UNCHANGED <<fexists, clock, page, wentry, wreq, rpc, rbuf, doneAtRead,
                   begunAtEof>>

\* f.write(log_entry) raises before anything reaches the file
PixelWriteFails(w) ==
    /\ wpc[w] = "open"
    /\ wsent[w] = 0
    /\ wpc' = [wpc EXCEPT ![w] = "done"]
    /\ PixelReturn(w, [wreq[w] EXCEPT !.outcome = "write_failed"])
    /\ UNCHANGED <<fexists, content, clock, page, wentry, wsent, wreq, rpc,
                   rbuf, doneAtRead, begunAtEof>>

\* view_stats: open(LOG_FILE, 'r')
StatsOpen ==
    /\ rpc = "idle"
    /\ IF ~fexists
       THEN /\ rpc' = "done"
            /\ resp' = NotFoundResponse
            /\ page' = NoPage
       ELSE /\ rpc' = "open"
            /\ UNCHANGED <<resp, page>>
    /\ UNCHANGED <<fexists, content, clock, req, hist, wpc, wentry, wsent,
                   wreq, rbuf, doneAtRead, begunAtEof>>

\* view_stats: f.readlines() reads what the file holds beyond what it has
\* read, until a read returns nothing; then the lines are parsed and the
\* page is rendered
StatsRead ==
    /\ rpc \in {"open", "reading"}
    /\ doneAtRead' = IF rpc = "open" THEN Cardinality(CompletedAppends)
                     ELSE doneAtRead
    /\ IF Len(rbuf) < Len(content)
       THEN /\ rbuf' = rbuf \o SubSeq(content, Len(rbuf) + 1, Len(content))
            /\ rpc' = "reading"
            /\ UNCHANGED <<resp, page, begunAtEof>>
       ELSE LET computed == StatsOf(rbuf) IN
            /\ rpc' = "done"
            /\ resp' = computed.resp
            /\ page' = computed.page
            /\ begunAtEof' = Cardinality(BegunAppends)
            /\ UNCHANGED rbuf
    /\ UNCHANGED <<fexists, content, clock, req, hist, wpc, wentry, wsent,
                   wreq>>

\* the tracking id of each concurrent request: no field holds a line break
ConcurrentId(w) == IF w % 2 = 1 THEN <<"a">> ELSE <<"a", BAR, "b">>

PixelBeginStep ==
    \E w \in Writers, opened \in BOOLEAN :
        PixelBegin(w, ConcurrentId(w), NoHeader, <<"r">>, Header(<<"u">>),
                   opened)

PixelWriteStep ==
    \E w \in Writers : \E k \in 1..(Len(wentry[w]) - wsent[w]) :
        PixelWrite(w, k)

PixelWriteFailsStep == \E w \in Writers : PixelWriteFails(w)

NextConcurrent ==
    \/ PixelBeginStep
    \/ PixelWriteStep
    \/ PixelWriteFailsStep
    \/ StatsOpen
    \/ StatsRead

SpecConcurrent == Init /\ [][NextConcurrent]_vars

\* C10: with concurrent pixel requests whose appends do not interleave and
\* whose fields hold no line break, the total_opens a /stats request reports
\* is at least the number of appends complete when its read began and at
\* most the number begun when its read ended; every line but the last it
\* read is a whole entry, and the last is an entry or the start of one.
C10_ReaderCountBounds ==
    (rpc = "done" /\ resp.status # 404 /\ page # NoPage) =>
        LET lines == ReadLines(rbuf) IN
        /\ doneAtRead <= page.total_opens
        /\ page.total_opens <= begunAtEof
        /\ \A i \in 1..(Len(lines) - 1) :
               \E w \in Writers : lines[i] = wentry[w]
        /\ Len(lines) >= 1 =>
               \E w \in Writers : IsPrefix(lines[Len(lines)], wentry[w])
        /\ page.total_opens >= Len(lines) - 1

\* /stats read one whole entry and the start of another one, too short to
\* count as a record
C10_Witness ==
    LET lines == ReadLines(rbuf) IN
    /\ rpc = "done"
    /\ page.total_opens = 1
    /\ begunAtEof = 2
    /\ doneAtRead = 0
    /\ Len(lines) = 2
    /\ \A w \in Writers : lines[2] # wentry[w]

====
